---- MODULE Spec2Model ----
(***************************************************************************)
(* A model of git-smart-commit.py: the multi-option response parser, the   *)
(* generation call, the interactive refinement session, the change check   *)
(* of main, the submodule scan and the commit step.                        *)
(*                                                                         *)
(* Text is a sequence of tokens.  A token is one lexeme that the program's *)
(* regular expressions and string operations tell apart: a marker keyword, *)
(* one digit, a colon, one whitespace character, or an opaque word.        *)
(* The non-ASCII literals of the source are written in pinyin:             *)
(*   "XuanXiang" = the keyword of r"选项...", "FangAn" = that of r"方案...",  *)
(*   "FullColon" = the full-width colon, "(ShengChengShiBai)" = "(生成失败)". *)
(***************************************************************************)
EXTENDS Integers, Sequences, FiniteSets, TLC

\* ------------------------------------------------------------------ text

Whitespace == {" ", "\n"}

Digits == {"0", "1", "2", "3", "4", "5", "6", "7", "8", "9"}

DigitVal(t) ==
  CASE t = "0" -> 0 [] t = "1" -> 1 [] t = "2" -> 2 [] t = "3" -> 3 [] t = "4" -> 4
    [] t = "5" -> 5 [] t = "6" -> 6 [] t = "7" -> 7 [] t = "8" -> 8 [] t = "9" -> 9

DigitTok(n) ==
  CASE n = 0 -> "0" [] n = 1 -> "1" [] n = 2 -> "2" [] n = 3 -> "3" [] n = 4 -> "4"
    [] n = 5 -> "5" [] n = 6 -> "6" [] n = 7 -> "7" [] n = 8 -> "8" [] n = 9 -> "9"

\* int(): the value of a run of decimal digits.
RECURSIVE ToInt(_)
ToInt(ds) ==
  IF ds = <<>> THEN 0
  ELSE 10 * ToInt(SubSeq(ds, 1, Len(ds) - 1)) + DigitVal(ds[Len(ds)])

\* str(): the decimal digits of a natural number.
RECURSIVE ToStr(_)
ToStr(n) == IF n < 10 THEN <<DigitTok(n)>> ELSE ToStr(n \div 10) \o <<DigitTok(n % 10)>>

\* s[from:to] of Python on 0-based offsets, here with 1-based first and last.
Slice(s, first, last) == IF first > last THEN <<>> ELSE SubSeq(s, first, last)

\* The least j >= i such that s[j] is not in S (Len(s) + 1 when there is none):
\* where a greedy run of S-characters that starts at i ends.
SkipWhile(s, i, S) ==
  CHOOSE j \in i..(Len(s) + 1) :
    /\ \A k \in i..(j - 1) : s[k] \in S
    /\ (j = Len(s) + 1 \/ s[j] \notin S)

\* str.strip(): leading and trailing whitespace removed.
Strip(s) ==
  LET a == SkipWhile(s, 1, Whitespace)
      b == IF a > Len(s) THEN 0
           ELSE CHOOSE j \in a..Len(s) :
                  /\ s[j] \notin Whitespace
                  /\ \A k \in (j + 1)..Len(s) : s[k] \in Whitespace
  IN Slice(s, a, b)

\* Whether sep occurs in s at offset i.
OccursAt(s, sep, i) ==
  /\ i + Len(sep) - 1 <= Len(s)
  /\ \A k \in 1..Len(sep) : s[i + k - 1] = sep[k]

\* str.split(sep): the pieces between the leftmost non-overlapping occurrences.
RECURSIVE Split(_, _)
Split(s, sep) ==
  LET hits == {i \in 1..Len(s) : OccursAt(s, sep, i)}
  IN IF hits = {} THEN <<s>>
     ELSE LET i == CHOOSE h \in hits : \A g \in hits : h <= g
          IN <<Slice(s, 1, i - 1)>> \o Split(Slice(s, i + Len(sep), Len(s)), sep)

\* ---------------------------------------------- parse_multiple_commits

\* language.lower() == "chinese" or language.lower() == "中文"
IsChinese(language) == language \in {"chinese", "ZhongWen"}

\* A marker pattern  kw \s* (\d+) \s* [colons]  is its keyword and its colons.
option_patterns(language) ==
  IF IsChinese(language)
  THEN << [kw |-> "XuanXiang", colons |-> {":", "FullColon"}],
          [kw |-> "XuanXiang", colons |-> {"FullColon", ":"}],
          [kw |-> "FangAn", colons |-> {":", "FullColon"}] >>
  ELSE << [kw |-> "Option", colons |-> {":"}],
          [kw |-> "OPTION", colons |-> {":"}],
          [kw |-> "Alternative", colons |-> {":"}] >>

\* re.match of a marker pattern at offset i: the offset just after the match,
\* or 0 when the pattern does not match there.
MatchEnd(pattern, s, i) ==
  IF i >= Len(s) \/ s[i] # pattern.kw THEN 0
  ELSE LET d0 == SkipWhile(s, i + 1, Whitespace)
           d1 == SkipWhile(s, d0, Digits)
           c == SkipWhile(s, d1, Whitespace)
       IN IF d1 > d0 /\ c <= Len(s) /\ s[c] \in pattern.colons THEN c + 1 ELSE 0

\* int(match.group(1)) of the match of pattern at offset i.
MatchNum(s, i) ==
  LET d0 == SkipWhile(s, i + 1, Whitespace)
      d1 == SkipWhile(s, d0, Digits)
  IN ToInt(Slice(s, d0, d1 - 1))

\* list(re.finditer(pattern, response)) from offset i on: the matches, left to
\* right and non-overlapping, each as (option_num, match.start(), match.end()).
RECURSIVE FindIter(_, _, _)
FindIter(pattern, s, i) ==
  IF i > Len(s) THEN <<>>
  ELSE LET e == MatchEnd(pattern, s, i)
       IN IF e > 0
          THEN <<[num |-> MatchNum(s, i), start |-> i, end |-> e]>>
                 \o FindIter(pattern, s, e)
          ELSE FindIter(pattern, s, i + 1)

\* The loop over option_patterns: the in-range matches of the first pattern
\* that has any, from pattern k on.
RECURSIVE option_positions(_, _, _, _)
option_positions(response, num_options, patterns, k) ==
  IF k > Len(patterns) THEN <<>>
  ELSE LET matches == FindIter(patterns[k], response, 1)
           kept == SelectSeq(matches, LAMBDA m : 1 <= m.num /\ m.num <= num_options)
       IN IF kept # <<>> THEN kept
          ELSE option_positions(response, num_options, patterns, k + 1)

\* SortByStart with the option number as the key.
RECURSIVE SortByStart_ByNum(_)
SortByStart_ByNum(ps) ==
  IF Len(ps) <= 1 THEN ps
  ELSE LET rest == SortByStart_ByNum(SubSeq(ps, 1, Len(ps) - 1))
           x == ps[Len(ps)]
           n == Cardinality({j \in 1..Len(rest) : rest[j].num <= x.num})
       IN SubSeq(rest, 1, n) \o <<x>> \o SubSeq(rest, n + 1, Len(rest))

\* option_positions.sort(key=lambda x: x[1]): a stable insertion sort.
RECURSIVE SortByStart(_)
SortByStart(ps) ==
  IF Len(ps) <= 1 THEN ps
  ELSE LET rest == SortByStart(SubSeq(ps, 1, Len(ps) - 1))
           x == ps[Len(ps)]
           n == Cardinality({j \in 1..Len(rest) : rest[j].start <= x.start})
       IN SubSeq(rest, 1, n) \o <<x>> \o SubSeq(rest, n + 1, Len(rest))

\* MarkerSplit with the strip() of the slices forgotten.
MarkerSplit_NoStrip(response, positions) ==
  [i \in 1..Len(positions) |->
     IF i = Len(positions)
     THEN Slice(response, positions[i].end, Len(response))
     ELSE Slice(response, positions[i].end, positions[i + 1].start - 1)]

\* The slices between consecutive markers, each stripped.
MarkerSplit(response, positions) ==
  [i \in 1..Len(positions) |->
     IF i = Len(positions)
     THEN Strip(Slice(response, positions[i].end, Len(response)))
     ELSE Strip(Slice(response, positions[i].end, positions[i + 1].start - 1))]

\* response.split('\n\n\n')
TripleNewlineParts(response) == Split(response, <<"\n", "\n", "\n">>)

\* re.sub(r"^\d+\s*[:：]", "", part)
RemoveNumber(part) ==
  LET d1 == SkipWhile(part, 1, Digits)
      c == SkipWhile(part, d1, Whitespace)
  IN IF d1 > 1 /\ c <= Len(part) /\ part[c] \in {":", "FullColon"}
     THEN Slice(part, c + 1, Len(part))
     ELSE part

\* The loop over commit_parts[1:], from part k on, with the options kept so far.
RECURSIVE LooseCollect(_, _, _, _)
LooseCollect(commit_parts, k, acc, num_options) ==
  IF k > Len(commit_parts) THEN acc
  ELSE IF Strip(commit_parts[k]) = <<>>
       THEN LooseCollect(commit_parts, k + 1, acc, num_options)
       ELSE LET acc2 == Append(acc, Strip(RemoveNumber(commit_parts[k])))
            IN IF Len(acc2) >= num_options THEN acc2
               ELSE LooseCollect(commit_parts, k + 1, acc2, num_options)

\* LooseSplit with the whole response stripped in the degenerate case.
LooseSplit_Stripped(response, num_options, language) ==
  LET commit_parts == Split(response, IF IsChinese(language) THEN <<"XuanXiang">>
                                                             ELSE <<"Option">>)
  IN IF Len(commit_parts) > 1
     THEN LooseCollect(commit_parts, 2, <<>>, num_options)
     ELSE <<Strip(response)>>

\* The split on the bare keyword, or the whole response as the only option.
LooseSplit(response, num_options, language) ==
  LET commit_parts == Split(response, IF IsChinese(language) THEN <<"XuanXiang">>
                                                             ELSE <<"Option">>)
  IN IF Len(commit_parts) > 1
     THEN LooseCollect(commit_parts, 2, <<>>, num_options)
     ELSE <<response>>

\* f"选项 {n} (生成失败)"
Placeholder(n) == <<"XuanXiang", " ">> \o ToStr(n) \o <<" ", "(ShengChengShiBai)">>

\* Pad with a loop that stops one placeholder early.
RECURSIVE Pad_OneShort(_, _)
Pad_OneShort(commit_options, num_options) ==
  IF Len(commit_options) < num_options - 1
  THEN Pad_OneShort(Append(commit_options, Placeholder(Len(commit_options) + 1)),
                    num_options)
  ELSE commit_options

\* while len(commit_options) < num_options: append the next placeholder.
RECURSIVE Pad(_, _)
Pad(commit_options, num_options) ==
  IF Len(commit_options) < num_options
  THEN Pad(Append(commit_options, Placeholder(Len(commit_options) + 1)), num_options)
  ELSE commit_options

\* commit_options[:num_options] when there are more than num_options.
Truncate(commit_options, num_options) ==
  IF Len(commit_options) > num_options
  THEN SubSeq(commit_options, 1, num_options)
  ELSE commit_options

\* parse_multiple_commits with the triple-newline split tried whenever the
\* marker split was not accepted.
parse_multiple_commits_AlwaysTriple(response, num_options, language) ==
  LET positions == SortByStart(
                     option_positions(response, num_options, option_patterns(language), 1))
      pieces == MarkerSplit(response, positions)
      parts == TripleNewlineParts(response)
  IN IF positions # <<>> /\ Len(pieces) = num_options THEN pieces
     ELSE IF Len(parts) >= num_options
     THEN [i \in 1..num_options |-> Strip(parts[i])]
     ELSE Truncate(Pad(LooseSplit(response, num_options, language), num_options),
                   num_options)

parse_multiple_commits(response, num_options, language) ==
  LET positions == SortByStart(
                     option_positions(response, num_options, option_patterns(language), 1))
      pieces == MarkerSplit(response, positions)
      parts == TripleNewlineParts(response)
  IN IF positions # <<>> /\ Len(pieces) = num_options THEN pieces
     ELSE IF positions = <<>> /\ Len(parts) >= num_options
     THEN [i \in 1..num_options |-> Strip(parts[i])]
     ELSE Truncate(Pad(LooseSplit(response, num_options, language), num_options),
                   num_options)

\* --------------------------------------------------- text of the session

\* None, as opposed to any string.
None == <<"<None>">>

\* str.lower() on the tokens that have an upper-case spelling here.
Lower(t) ==
  CASE t = "DONE" -> "done"
    [] t = "EXIT" -> "exit"
    [] t = "YES" -> "yes"
    [] t = "COMMIT MESSAGE:" -> "commit message:"
    [] OTHER -> t

LowerText(s) == [i \in 1..Len(s) |-> Lower(s[i])]

\* sep.join(texts)
RECURSIVE Join(_, _)
Join(texts, sep) ==
  IF texts = <<>> THEN <<>>
  ELSE IF Len(texts) = 1 THEN texts[1]
  ELSE texts[1] \o sep \o Join(Tail(texts), sep)

\* re.findall(fence (?:markdown|md)? (.*?) fence, response, re.DOTALL) from offset
\* i on: the contents of the fenced blocks, left to right.
RECURSIVE CodeBlocks(_, _)
CodeBlocks(response, i) ==
  LET opens == {f \in i..Len(response) :
                  /\ response[f] = "<fence>"
                  /\ \E g \in (f + 1)..Len(response) : response[g] = "<fence>"}
  IN IF opens = {} THEN <<>>
     ELSE LET f == CHOOSE x \in opens : \A y \in opens : x <= y
              \* the optional tag is taken unless the closing fence follows at once
              b == IF f + 1 <= Len(response) /\ response[f + 1] \in {"markdown", "md"}
                      /\ \E g \in (f + 2)..Len(response) : response[g] = "<fence>"
                   THEN f + 2 ELSE f + 1
              g == CHOOSE x \in b..Len(response) :
                     /\ response[x] = "<fence>"
                     /\ \A y \in b..(x - 1) : response[y] # "<fence>"
          IN <<Slice(response, b, g - 1)>> \o CodeBlocks(response, g + 1)

\* The labels of message_patterns, in order.
message_patterns ==
  << <<"TiJiaoXinXi:">>,
     <<"commit message:">>,
     <<"ZuiZhong", "TiJiaoXinXi:">>,
     <<"final", " ", "commit message:">> >>

\* re.search(label + r"(.*?)(?=$|\n\n)", response, re.IGNORECASE | re.DOTALL):
\* the group of the leftmost match, or None without a match.
LabelGroup(response, label) ==
  LET low == LowerText(response)
      hits == {i \in 1..Len(response) : OccursAt(low, label, i)}
  IN IF hits = {} THEN None
     ELSE LET i == CHOOSE h \in hits : \A g \in hits : h <= g
              a == i + Len(label)
              \* the lookahead holds at offset j: the end of the string, a last
              \* newline before it, or two newlines
              stops(j) == \/ j = Len(response) + 1
                          \/ (j = Len(response) /\ response[j] = "\n")
                          \/ OccursAt(response, <<"\n", "\n">>, j)
              j == CHOOSE x \in a..(Len(response) + 1) :
                     stops(x) /\ \A y \in a..(x - 1) : ~stops(y)
          IN Slice(response, a, j - 1)

\* The loop over message_patterns from pattern k on.
RECURSIVE FirstLabelled(_, _)
FirstLabelled(response, k) ==
  IF k > Len(message_patterns) THEN None
  ELSE LET grp == LabelGroup(response, message_patterns[k])
       IN IF grp # None THEN Strip(grp) ELSE FirstLabelled(response, k + 1)

extract_commit_message(response) ==
  LET code_blocks == CodeBlocks(response, 1)
      full == {k \in 1..Len(code_blocks) : Strip(code_blocks[k]) # <<>>}
  IN IF full # {}
     THEN Strip(code_blocks[CHOOSE k \in full : \A l \in full : k <= l])
     ELSE FirstLabelled(response, 1)

\* format_options: "--- Option i ---\n" and the option, joined by blank lines.
format_options(opts, language) ==
  Join([i \in 1..Len(opts) |->
          <<"---", " ", IF IsChinese(language) THEN "XuanXiang" ELSE "Option", " ">>
            \o ToStr(i) \o <<" ", "---", "\n">> \o opts[i]],
       <<"\n", "\n">>)

\* MessageHistory.get_conversation(max_length): the last max_length messages,
\* each behind its role, joined by blank lines.
RolePrefix(role) ==
  CASE role = "system" -> <<"XiTong:", " ">>
    [] role = "assistant" -> <<"ZhuShou:", " ">>
    [] role = "user" -> <<"YongHu:", " ">>

\* LastMessages without the cut: every message.
LastMessages_All(messages, max_length) == messages

\* self.messages[-max_length:]
LastMessages(messages, max_length) ==
  IF Len(messages) <= max_length THEN messages
  ELSE SubSeq(messages, Len(messages) - max_length + 1, Len(messages))

get_conversation(messages, max_length) ==
  LET shown == LastMessages(messages, max_length)
  IN Join([i \in 1..Len(shown) |-> RolePrefix(shown[i].role) \o shown[i].content],
          <<"\n", "\n">>)

\* The number of messages build_conversation_prompt embeds.
ConversationTurns == 10

build_conversation_prompt(messages, language) ==
  (IF IsChinese(language) THEN <<"DuiHuaLiShi:", "\n">>
                          ELSE <<"Conversation history:", "\n">>)
    \o get_conversation(messages, ConversationTurns)
    \o (IF IsChinese(language) THEN <<"\n", "\n", "QingHuiFu">>
                               ELSE <<"\n", "\n", "Please respond">>)

\* ------------------------------------------------------------ the state

VARIABLES
  out,        \* parser run: the text the model runner has written so far
  want,       \* parser run: the num_options passed to the parser
  lang,       \* parser run: the language passed to the parser
  shape,      \* parser run: keyword and spacing of the markers written, or NoShape
  prefix,     \* parser run: the text written before the first marker
  chain,      \* parser run: the bodies written after the markers, in order
  nums,       \* parser run: the numbers of the markers written, in order
  options,    \* parser run: the list parse_multiple_commits returned
  ppc,        \* parser run: "emit" while the runner writes, "parsed" after the call
  cwd,        \* the process working directory, a path of directory names
  cwd0,       \* submodule scan: the working directory when process_submodules was entered
  spc,        \* submodule scan: the position in process_submodules
  matches,    \* submodule scan: len(matches), the submodule lines of the staged diff
  idx,        \* submodule scan: the number of the match the for loop is at
  current_dir,        \* submodule scan: the local current_dir
  submodule_summary,  \* submodule scan: the numbers of the matches with an entry
  seen,       \* submodule scan: what was found for each match inspected so far
  pc,         \* main: the position in main and in interactive_session
  args,       \* main: the parsed command line, num_options clamped
  language,   \* main: the language, "english" or "chinese"
  staged_changes,     \* main: whether git diff --staged printed anything
  unstaged_changes,   \* main: whether git diff printed anything
  submodule_changes,  \* main: whether git status printed "modified:"
  submodule_info,     \* main: what process_submodules returned
  generated,  \* what the generation call met: its outcome and the runner's output
  commit_options,     \* main: what generate_commit_message returned, a str or a list
  history,    \* session: MessageHistory.messages
  assistant_msg,      \* session: the recommendation shown first
  current_options,    \* session: the list of candidates
  has_interactive_result,     \* session: the flag of that name
  latest_interactive_result,  \* session: the working candidate, or None
  selected_message,   \* session and main: the message chosen, or None
  last_prompt,        \* the prompt of the latest model call of the session
  llm_calls,  \* how often the model runner was invoked
  llm_failures,       \* how many of the session's model calls raised
  parser_calls,       \* how often parse_multiple_commits was called
  stage_prompts,      \* how often the auto-stage question was asked
  reported,   \* what the change check told the user
  exited,     \* whether the user gave an exit command in the session
  answer,     \* the user's answer to do_commit's question, "" before it
  commit_calls        \* the messages git commit was invoked with

parseVars == <<out, want, lang, shape, prefix, chain, nums, options, ppc>>

subVars == <<cwd, cwd0, spc, matches, idx, current_dir, submodule_summary, seen>>

mainVars ==
  <<pc, args, language, staged_changes, unstaged_changes, submodule_changes,
    submodule_info, generated, commit_options, stage_prompts, reported, answer,
    commit_calls, parser_calls>>

sessionVars ==
  <<history, assistant_msg, current_options, has_interactive_result,
    latest_interactive_result, selected_message, last_prompt, llm_calls,
    llm_failures, exited>>

vars == <<parseVars, subVars, mainVars, sessionVars>>

\* ------------------------------------------------------------ bounds

\* The longest response written token by token.
MaxLen == 3

\* The most messages the history of a session grows to.
MaxTurns == 5

\* The most messages the history of a long session grows to.
MaxLongTurns == 11

\* The most markers the runner numbers out of turn.
MaxOdd == 2

\* The most submodule lines in one staged diff.
MaxSubmodules == 2

\* args.num_options is clamped into MinOptions..MaxOptions.
MinOptions == 1
MaxOptions == 5

\* ------------------------------------------- the parser on its own

Languages == {"english", "chinese"}

Keywords(lng) == {option_patterns(lng)[k].kw : k \in 1..3}

\* The tokens the runner writes one at a time.
Alphabet(lng) ==
  IF IsChinese(lng)
  THEN {"XuanXiang", "FangAn", "1", "2", ":", "FullColon", " ", "\n", "a"}
  ELSE {"Option", "OPTION", "1", "2", ":", " ", "\n", "a"}

\* An introduction without a marker.
Intros == {<<>>, <<"a", "\n">>}

\* Bodies without a marker, with whitespace around them and with the bare
\* keyword inside.
Bodies(lng) ==
  { <<" ", "a", "\n", "\n">>,
    <<"\n", IF IsChinese(lng) THEN "XuanXiang" ELSE "Option", " ", "b">> }

\* "Option 2:" and its spellings "Option2:" and "Option 2 :".
Forms == {"plain", "tight", "spaced"}

Marker(kw, n, form) ==
  CASE form = "plain" -> <<kw, " ">> \o ToStr(n) \o <<":">>
    [] form = "tight" -> <<kw>> \o ToStr(n) \o <<":">>
    [] form = "spaced" -> <<kw, " ">> \o ToStr(n) \o <<" ", ":">>

NoShape == [kw |-> "none", form |-> "none"]

\* main and the session before the program starts.
NoArgs ==
  [generate |-> FALSE, commit |-> FALSE, all |-> FALSE, no_interactive |-> FALSE,
   view |-> FALSE, clear_log |-> FALSE, num_options |-> MinOptions]

NoGeneration == [kind |-> "none", stdout |-> <<>>]

NoPrompt == [kind |-> "none", instruction |-> <<>>, turns |-> 0, text |-> <<>>]

MainIdle ==
  /\ pc = "args"
  /\ args = NoArgs
  /\ language = "english"
  /\ staged_changes = FALSE
  /\ unstaged_changes = FALSE
  /\ submodule_changes = FALSE
  /\ submodule_info = <<>>
  /\ generated = NoGeneration
  /\ commit_options = [is_list |-> FALSE, items |-> <<>>]
  /\ history = <<>>
  /\ assistant_msg = <<>>
  /\ current_options = <<>>
  /\ has_interactive_result = FALSE
  /\ latest_interactive_result = None
  /\ selected_message = None
  /\ last_prompt = NoPrompt
  /\ llm_calls = 0
  /\ llm_failures = 0
  /\ parser_calls = 0
  /\ stage_prompts = 0
  /\ reported = "nothing"
  /\ exited = FALSE
  /\ answer = ""
  /\ commit_calls = <<>>

\* The submodule scan at rest.
SubIdle ==
  /\ cwd = <<"repo">>
  /\ cwd0 = <<"repo">>
  /\ spc = "idle"
  /\ matches = 0
  /\ idx = 0
  /\ current_dir = <<>>
  /\ submodule_summary = <<>>
  /\ seen = <<>>

ParseInit ==
  /\ SubIdle
  /\ MainIdle
  /\ out = <<>>
  /\ want \in MinOptions..MaxOptions
  /\ lang \in Languages
  /\ shape = NoShape
  /\ prefix = <<>>
  /\ chain = <<>>
  /\ nums = <<>>
  /\ options = <<>>
  /\ ppc = "emit"

\* The runner writes one more token of free text.
EmitToken(t) ==
  /\ ppc = "emit"
  /\ shape = NoShape
  /\ Len(out) < MaxLen
  /\ out' = Append(out, t)
  /\ prefix' = out'
  /\ UNCHANGED <<want, lang, shape, chain, nums, options, ppc>>
  /\ UNCHANGED <<subVars, mainVars, sessionVars>>

\* The runner writes an introduction and then sticks to the requested format.
EmitIntro(kw, form, intro) ==
  /\ ppc = "emit"
  /\ shape = NoShape
  /\ out = <<>>
  /\ shape' = [kw |-> kw, form |-> form]
  /\ out' = intro
  /\ prefix' = intro
  /\ UNCHANGED <<want, lang, chain, nums, options, ppc>>
  /\ UNCHANGED <<subVars, mainVars, sessionVars>>

\* The runner writes the next marker of the requested format and its body.
EmitOption(body) ==
  /\ ppc = "emit"
  /\ shape # NoShape
  /\ Len(chain) < want
  /\ out' = out \o Marker(shape.kw, Len(chain) + 1, shape.form) \o body
  /\ chain' = Append(chain, body)
  /\ nums' = Append(nums, Len(chain) + 1)
  /\ UNCHANGED <<want, lang, shape, prefix, options, ppc>>
  /\ UNCHANGED <<subVars, mainVars, sessionVars>>

\* The numbers the runner may give a marker it writes out of turn.
OddNumbers == {1, 2}

\* The bodies that follow a marker written out of turn: a plain one, and one
\* behind three newlines.
OddBodies == {<<" ", "b">>, <<"\n", "\n", "\n", "a">>}

\* The runner does not keep to the numbering: one of its first MaxOdd markers
\* gets a number of its choice.
EmitOdd(n, body) ==
  /\ ppc = "emit"
  /\ shape # NoShape
  /\ shape.form = "plain"
  /\ prefix = <<>>
  /\ Len(chain) < MaxOdd
  /\ Len(chain) < want
  /\ out' = out \o Marker(shape.kw, n, shape.form) \o body
  /\ chain' = Append(chain, body)
  /\ nums' = Append(nums, n)
  /\ UNCHANGED <<want, lang, shape, prefix, options, ppc>>
  /\ UNCHANGED <<subVars, mainVars, sessionVars>>

\* commit_options = parse_multiple_commits(ollama_response, num_options, language)
ParseCall ==
  /\ ppc = "emit"
  /\ options' = parse_multiple_commits(out, want, lang)
  /\ ppc' = "parsed"
  /\ UNCHANGED <<out, want, lang, shape, prefix, chain, nums>>
  /\ UNCHANGED <<subVars, mainVars, sessionVars>>

ParseNext ==
  \/ \E t \in Alphabet(lang) : EmitToken(t)
  \/ \E kw \in Keywords(lang), form \in Forms, intro \in Intros :
       EmitIntro(kw, form, intro)
  \/ \E body \in Bodies(lang) \cup {<<>>} : EmitOption(body)
  \/ \E n \in OddNumbers, body \in OddBodies : EmitOdd(n, body)
  \/ ParseCall

SpecParse == ParseInit /\ [][ParseNext]_vars

\* --------------------------------------------- process_submodules on its own

\* The parser at rest.
ParseIdle ==
  /\ out = <<>>
  /\ want = MinOptions
  /\ lang = "english"
  /\ shape = NoShape
  /\ prefix = <<>>
  /\ chain = <<>>
  /\ nums = <<>>
  /\ options = <<>>
  /\ ppc = "idle"

\* The directories the program may be started in.
StartDirs == {<<"repo">>, <<"repo", "src">>}

SubInit ==
  /\ ParseIdle
  /\ MainIdle
  /\ cwd \in StartDirs
  /\ cwd0 = cwd
  /\ spc = "scan"
  /\ matches = 0
  /\ idx = 0
  /\ current_dir = <<>>
  /\ submodule_summary = <<>>
  /\ seen = <<>>

\* RestoredDir without the finally block: the process stays where it is.
RestoredDir_Stay(saved, now) == now

\* The directory the finally block changes to, given the saved current_dir and
\* the directory the process is in.
RestoredDir(saved, now) == saved

\* matches = list(re.finditer(submodule_pattern, submodule_diff)); without a
\* match the function returns at once.
SubScan(n) ==
  /\ spc = "scan"
  /\ matches' = n
  /\ idx' = 1
  /\ spc' = IF n = 0 THEN "returned" ELSE "inspect"
  /\ UNCHANGED <<cwd, cwd0, current_dir, submodule_summary, seen>>
  /\ UNCHANGED <<parseVars, mainVars, sessionVars>>

\* The head of the loop body: os.path.isdir(submodule_path), and
\* current_dir = os.getcwd() when the directory is there.
SubInspect(isdir) ==
  /\ spc = "inspect"
  /\ idx <= matches
  /\ IF isdir
     THEN /\ current_dir' = cwd
          /\ spc' = "chdir"
          /\ UNCHANGED <<idx, seen>>
     ELSE /\ seen' = Append(seen, "missing")
          /\ idx' = idx + 1
          /\ UNCHANGED <<current_dir, spc>>
  /\ UNCHANGED <<cwd, cwd0, matches, submodule_summary>>
  /\ UNCHANGED <<parseVars, mainVars, sessionVars>>

\* os.chdir(submodule_path), which may raise.
SubChdir(ok) ==
  /\ spc = "chdir"
  /\ IF ok
     THEN /\ cwd' = Append(cwd, "sub")
          /\ spc' = "checkgit"
          /\ UNCHANGED seen
     ELSE /\ seen' = Append(seen, "chdir_error")
          /\ spc' = "except"
          /\ UNCHANGED cwd
  /\ UNCHANGED <<cwd0, matches, idx, current_dir, submodule_summary>>
  /\ UNCHANGED <<parseVars, mainVars, sessionVars>>

\* The test for .git: without it, os.chdir(current_dir) and continue, which
\* leaves the try block through finally.
SubCheckGit(is_repo) ==
  /\ spc = "checkgit"
  /\ IF is_repo
     THEN /\ spc' = "log"
          /\ UNCHANGED <<cwd, seen>>
     ELSE /\ cwd' = current_dir
          /\ seen' = Append(seen, "notrepo")
          /\ spc' = "finally"
  /\ UNCHANGED <<cwd0, matches, idx, current_dir, submodule_summary>>
  /\ UNCHANGED <<parseVars, mainVars, sessionVars>>

\* match.group(1), group(2) and group(3) of the i-th "Submodule" line of the
\* staged diff: the path, the old hash and the new hash.
submodule_path(i) ==
  CASE i = 1 -> "libs/foo" [] i = 2 -> "libs/bar" [] i = 3 -> "libs/baz" [] OTHER -> "libs/qux"

old_hash(i) ==
  CASE i = 1 -> "abc123" [] i = 2 -> "abc234" [] i = 3 -> "abc345" [] OTHER -> "abc456"

new_hash(i) ==
  CASE i = 1 -> "def456" [] i = 2 -> "def567" [] i = 3 -> "def678" [] OTHER -> "def789"

\* What git log --pretty=format:"%h %s" old..new prints in the i-th submodule
\* when the range holds a commit: the range ends with the new hash, and the
\* old hash is not in it.
LogText(i) == <<new_hash(i), " ", "subject">>

\* sub_commits for each result of the log query.
sub_commits(result, i) == IF result = "commits" THEN LogText(i) ELSE <<>>

\* f"Submodule {submodule_path} 更新:\n{sub_commits}\n\n"
SummaryEntry(path, commits) ==
  <<"Submodule", " ", path, " ", "GengXin:", "\n">> \o commits \o <<"\n", "\n">>

\* SummaryAfter without the test for commits.
SummaryAfter_Always(summary, path, commits) == summary \o SummaryEntry(path, commits)

\* if sub_commits: submodule_summary += ...
SummaryAfter(summary, path, commits) ==
  IF commits # <<>> THEN summary \o SummaryEntry(path, commits) ELSE summary

\* The log query of the submodule: commits, no commits (also when git fails:
\* check=False), or an exception raised on the way.
SubLog(result) ==
  /\ spc = "log"
  /\ seen' = Append(seen, result)
  /\ submodule_summary' =
       IF result = "error" THEN submodule_summary
       ELSE SummaryAfter(submodule_summary, submodule_path(idx), sub_commits(result, idx))
  /\ spc' = IF result = "error" THEN "except" ELSE "finally"
  /\ UNCHANGED <<cwd, cwd0, matches, idx, current_dir>>
  /\ UNCHANGED <<parseVars, mainVars, sessionVars>>

\* except Exception: report.
SubExcept ==
  /\ spc = "except"
  /\ spc' = "finally"
  /\ UNCHANGED <<cwd, cwd0, matches, idx, current_dir, submodule_summary, seen>>
  /\ UNCHANGED <<parseVars, mainVars, sessionVars>>

\* finally: os.chdir(current_dir); then the next match.
SubFinally ==
  /\ spc = "finally"
  /\ cwd' = RestoredDir(current_dir, cwd)
  /\ idx' = idx + 1
  /\ spc' = "inspect"
  /\ UNCHANGED <<cwd0, matches, current_dir, submodule_summary, seen>>
  /\ UNCHANGED <<parseVars, mainVars, sessionVars>>

\* The loop is over: return submodule_summary.
SubReturn ==
  /\ spc = "inspect"
  /\ idx > matches
  /\ spc' = "returned"
  /\ UNCHANGED <<cwd, cwd0, matches, idx, current_dir, submodule_summary, seen>>
  /\ UNCHANGED <<parseVars, mainVars, sessionVars>>

SubNext ==
  \/ \E n \in 0..MaxSubmodules : SubScan(n)
  \/ \E isdir \in BOOLEAN : SubInspect(isdir)
  \/ \E ok \in BOOLEAN : SubChdir(ok)
  \/ \E is_repo \in BOOLEAN : SubCheckGit(is_repo)
  \/ \E result \in {"commits", "empty", "error"} : SubLog(result)
  \/ SubExcept
  \/ SubFinally
  \/ SubReturn

SpecSub == SubInit /\ [][SubNext]_vars

\* ------------------------------------------------------------ main

\* The values -n is given, in and out of range.
RawCounts == (MinOptions - 1)..(MaxOptions + 1)

\* choices=["english", "chinese", "英文", "中文"]
RawLanguages == {"english", "chinese", "YingWen", "ZhongWen"}

ArgSets ==
  [generate : BOOLEAN, commit : BOOLEAN, all : BOOLEAN, no_interactive : BOOLEAN,
   view : BOOLEAN, clear_log : BOOLEAN, num_options : {MinOptions}]

\* The clamp of args.num_options.
Clamp(n) ==
  IF n < MinOptions THEN MinOptions ELSE IF n > MaxOptions THEN MaxOptions ELSE n

\* language = args.language, with "英文" and "中文" translated.
NormalLanguage(raw) ==
  CASE raw = "YingWen" -> "english"
    [] raw = "ZhongWen" -> "chinese"
    [] OTHER -> raw

Init ==
  /\ ParseIdle
  /\ SubIdle
  /\ MainIdle

\* parse_args, the clamp, and the returns for --view, --clear-log and for a
\* command line without -g and -c.
ParseArgs(a, n, raw) ==
  /\ pc = "args"
  /\ args' = [a EXCEPT !.num_options = Clamp(n)]
  /\ language' = NormalLanguage(raw)
  /\ pc' = IF a.view \/ a.clear_log \/ (~a.generate /\ ~a.commit) THEN "done" ELSE "env"
  /\ UNCHANGED <<staged_changes, unstaged_changes, submodule_changes, submodule_info,
                 generated, commit_options, stage_prompts, reported, answer,
                 commit_calls, parser_calls>>
  /\ UNCHANGED <<parseVars, subVars, sessionVars>>

\* check_ollama_installed() and check_git_repo().
CheckEnv(ollama_installed, is_repo) ==
  /\ pc = "env"
  /\ pc' = IF ollama_installed /\ is_repo THEN "check" ELSE "done"
  /\ UNCHANGED <<args, language, staged_changes, unstaged_changes, submodule_changes,
                 submodule_info, generated, commit_options, stage_prompts, reported,
                 answer, commit_calls, parser_calls>>
  /\ UNCHANGED <<parseVars, subVars, sessionVars>>

\* if args.all and (unstaged_changes or "modified:" in submodule_changes)
ShouldStageAll(all, unstaged, modified) == all /\ (unstaged \/ modified)

\* OffersStaging without the test for changes.
OffersStaging_Always(all, unstaged, modified) == ~all

\* if (unstaged_changes or "modified:" in submodule_changes) and not args.all
OffersStaging(all, unstaged, modified) == (unstaged \/ modified) /\ ~all

\* What the change check prints when nothing is staged.
Report(unstaged, modified) ==
  IF modified THEN "submodule changes not staged"
  ELSE IF unstaged THEN "changes not staged"
  ELSE "no changes detected"

\* What the three queries of the repository may find: nothing, staged changes
\* only, unstaged changes only, a modified submodule only, staged and unstaged.
StatusCases ==
  { <<FALSE, FALSE, FALSE>>, <<TRUE, FALSE, FALSE>>, <<FALSE, TRUE, FALSE>>,
    <<FALSE, FALSE, TRUE>>, <<TRUE, TRUE, FALSE>> }

\* The three queries of the repository, git add -A under -a, and what follows
\* when nothing is staged: the report, then the auto-stage question or the
\* return.  after is what git diff --staged prints after git add -A.
CheckChanges(staged, unstaged, modified, after) ==
  /\ pc = "check"
  /\ staged => after
  /\ ShouldStageAll(args.all, unstaged, modified) \/ after = staged
  /\ LET now == IF ShouldStageAll(args.all, unstaged, modified) THEN after ELSE staged
     IN /\ staged_changes' = now
        /\ unstaged_changes' = unstaged
        /\ submodule_changes' = modified
        /\ reported' = IF now THEN reported ELSE Report(unstaged, modified)
        /\ IF now
           THEN pc' = "collect" /\ UNCHANGED stage_prompts
           ELSE IF OffersStaging(args.all, unstaged, modified)
                THEN pc' = "ask_stage" /\ stage_prompts' = stage_prompts + 1
                ELSE pc' = "done" /\ UNCHANGED stage_prompts
  /\ UNCHANGED <<args, language, submodule_info, generated, commit_options, answer,
                 commit_calls, parser_calls>>
  /\ UNCHANGED <<parseVars, subVars, sessionVars>>

\* The answer to the auto-stage question: on y or yes, git add -A and a new
\* reading of the staged diff; otherwise the return.
AnswerStage(confirm, after) ==
  /\ pc = "ask_stage"
  /\ IF Lower(confirm) \in {"y", "yes"}
     THEN /\ staged_changes' = after
          /\ pc' = "collect"
     ELSE /\ after = staged_changes
          /\ pc' = "done"
          /\ UNCHANGED staged_changes
  /\ UNCHANGED <<args, language, unstaged_changes, submodule_changes, submodule_info,
                 generated, commit_options, stage_prompts, reported, answer,
                 commit_calls, parser_calls>>
  /\ UNCHANGED <<parseVars, subVars, sessionVars>>

\* What process_submodules can return: nothing, or a summary.
SubmoduleInfos == {<<>>, <<"SubmoduleSummary">>}

\* get_repo_info(), get_git_changes() and process_submodules(), which returns
\* with the working directory it was entered with.
Collect(info) ==
  /\ pc = "collect"
  /\ submodule_info' = info
  /\ pc' = "generate"
  /\ UNCHANGED <<args, language, staged_changes, unstaged_changes, submodule_changes,
                 generated, commit_options, stage_prompts, reported, answer,
                 commit_calls, parser_calls>>
  /\ UNCHANGED <<parseVars, subVars, sessionVars>>

\* "LLM没有返回任何输出"
NoOutputNotice == <<"LLMMeiYouFanHuiRenHeShuChu">>

\* "LLM调用失败", "LLM调用失败：未找到ollama命令", f"LLM调用异常: {str(e)}"
FailureSentinel(kind) ==
  CASE kind = "CalledProcessError" -> <<"LLMDiaoYongShiBai">>
    [] kind = "FileNotFoundError" -> <<"LLMDiaoYongShiBai", "FullColon", "WeiZhaoDaoOllama">>
    [] kind = "Exception" -> <<"LLMDiaoYongYiChang", ":", " ", "e">>

Failures == {"CalledProcessError", "FileNotFoundError", "Exception"}

\* generate_commit_message from the call of the runner on: a str for one
\* option and a list for more, as a record of the kind and the items.
generate_commit_message(outcome, num_options, lng) ==
  IF outcome.kind = "ok"
  THEN LET ollama_response ==
             IF outcome.stdout # <<>> THEN Strip(outcome.stdout) ELSE NoOutputNotice
       IN IF num_options > 1
          THEN [is_list |-> TRUE,
                items |-> parse_multiple_commits(ollama_response, num_options, lng)]
          ELSE [is_list |-> FALSE, items |-> <<ollama_response>>]
  ELSE [is_list |-> num_options > 1, items |-> <<FailureSentinel(outcome.kind)>>]

\* A response in the requested format: n markers, each with its own body.
Formatted(lng, n) ==
  Join([i \in 1..n |->
          Marker(IF IsChinese(lng) THEN "XuanXiang" ELSE "Option", i, "plain")
            \o <<" ", "b">> \o ToStr(i)],
       <<"\n", "\n">>)

\* What the runner may write when asked for n options: nothing, blank space,
\* or a response in the requested format.
GenOutputs(lng, n) == {<<>>, <<"\n">>, Formatted(lng, n)}

GenOutcomes(lng, n) ==
  {[kind |-> "ok", stdout |-> t] : t \in GenOutputs(lng, n)}
    \cup {[kind |-> k, stdout |-> <<>>] : k \in Failures}

\* commit_options = generate_commit_message(...)
Generate(outcome) ==
  /\ pc = "generate"
  /\ generated' = outcome
  /\ commit_options' = generate_commit_message(outcome, args.num_options, language)
  /\ llm_calls' = llm_calls + 1
  /\ parser_calls' =
       IF outcome.kind = "ok" /\ args.num_options > 1 THEN parser_calls + 1
       ELSE parser_calls
  /\ pc' = "present"
  /\ UNCHANGED <<args, language, staged_changes, unstaged_changes, submodule_changes,
                 submodule_info, stage_prompts, reported, answer, commit_calls>>
  /\ UNCHANGED <<history, assistant_msg, current_options, has_interactive_result,
                 latest_interactive_result, selected_message, last_prompt,
                 llm_failures, exited>>
  /\ UNCHANGED <<parseVars, subVars>>

\* AfterSession without the return on None.
AfterSession_NoReturn(selected, commit) == IF commit THEN "confirm" ELSE "done"

\* Where main goes when interactive_session has returned: it returns itself on
\* None, and calls do_commit under -c.
AfterSession(selected, commit) ==
  IF selected = None THEN "done" ELSE IF commit THEN "confirm" ELSE "done"

\* --no-interactive: the str, or the first item of the list.
SelectFirst ==
  /\ pc = "present"
  /\ args.no_interactive
  /\ selected_message' = commit_options.items[1]
  /\ pc' = IF args.commit THEN "confirm" ELSE "done"
  /\ UNCHANGED <<args, language, staged_changes, unstaged_changes, submodule_changes,
                 submodule_info, generated, commit_options, stage_prompts, reported,
                 answer, commit_calls, parser_calls>>
  /\ UNCHANGED <<history, assistant_msg, current_options, has_interactive_result,
                 latest_interactive_result, last_prompt, llm_calls, llm_failures,
                 exited>>
  /\ UNCHANGED <<parseVars, subVars>>

\* do_commit: the question, and git commit -m message on y or yes.
DoCommit(confirm) ==
  /\ pc = "confirm"
  /\ answer' = Lower(confirm)
  /\ commit_calls' =
       IF Lower(confirm) \in {"y", "yes"} THEN Append(commit_calls, selected_message)
       ELSE commit_calls
  /\ pc' = "done"
  /\ UNCHANGED <<args, language, staged_changes, unstaged_changes, submodule_changes,
                 submodule_info, generated, commit_options, stage_prompts, reported,
                 parser_calls>>
  /\ UNCHANGED <<parseVars, subVars, sessionVars>>

\* --------------------------------------------------- interactive_session

system_prompt(lng) ==
  IF IsChinese(lng) THEN <<"NiShiZhuShou">> ELSE <<"You are an assistant">>

context_prompt(lng, info) ==
  (IF IsChinese(lng) THEN <<"CangKuXinXi:", "repo_info", "BianGengNeiRong:", "changes">>
                     ELSE <<"Repository Info:", "repo_info", "Changes:", "changes">>)
    \o (IF info # <<>>
        THEN <<IF IsChinese(lng) THEN "SubmoduleBianGeng:" ELSE "Submodule Changes:">> \o info
        ELSE <<>>)

\* The recommendation: the str itself, or the list through format_options.
recommendation_msg(lng, opts) ==
  (IF IsChinese(lng) THEN <<"WoTuiJian:", "\n", "\n">> ELSE <<"I recommend:", "\n", "\n">>)
    \o (IF opts.is_list THEN format_options(opts.items, lng) ELSE opts.items[1])

\* SessionEntry with a lone option selected at once, as select_commit_message
\* does.
SessionEntry_AutoAdvance(opts, commit) ==
  IF Len(opts) = 1
  THEN [pc |-> AfterSession(opts[1], commit), selected_message |-> opts[1]]
  ELSE [pc |-> "menu", selected_message |-> None]

\* Where the head of interactive_session leaves off, whatever the number of
\* options: selected_message = None, and the menu of the loop.
SessionEntry(opts, commit) == [pc |-> "menu", selected_message |-> None]

\* The head of interactive_session, down to the loop.
StartSession ==
  /\ pc = "present"
  /\ ~args.no_interactive
  /\ assistant_msg' = recommendation_msg(language, commit_options)
  /\ history' = << [role |-> "system", content |-> system_prompt(language)],
                   [role |-> "system", content |-> context_prompt(language, submodule_info)],
                   [role |-> "assistant", content |-> assistant_msg'] >>
  /\ selected_message' = SessionEntry(commit_options.items, args.commit).selected_message
  /\ current_options' = commit_options.items
  /\ has_interactive_result' = FALSE
  /\ latest_interactive_result' = None
  /\ pc' = SessionEntry(commit_options.items, args.commit).pc
  /\ UNCHANGED <<last_prompt, llm_calls, llm_failures, exited>>
  /\ UNCHANGED <<args, language, staged_changes, unstaged_changes, submodule_changes,
                 submodule_info, generated, commit_options, stage_prompts, reported,
                 answer, commit_calls, parser_calls>>
  /\ UNCHANGED <<parseVars, subVars>>

mainFrame ==
  <<args, language, staged_changes, unstaged_changes, submodule_changes,
    submodule_info, generated, commit_options, stage_prompts, reported, answer,
    commit_calls, parser_calls>>

\* Menu choice 1 with an interactive result: use it.
UseCurrent ==
  /\ pc = "menu"
  /\ has_interactive_result
  /\ selected_message' = latest_interactive_result
  /\ pc' = AfterSession(selected_message', args.commit)
  /\ UNCHANGED <<history, assistant_msg, current_options, has_interactive_result,
                 latest_interactive_result, last_prompt, llm_calls, llm_failures,
                 exited>>
  /\ UNCHANGED <<mainFrame, parseVars, subVars>>

\* Menu choice 3 with an interactive result: back to the original options.
ReturnToOriginal ==
  /\ pc = "menu"
  /\ has_interactive_result
  /\ has_interactive_result' = FALSE
  /\ latest_interactive_result' = None
  /\ UNCHANGED <<pc, history, assistant_msg, current_options, selected_message,
                 last_prompt, llm_calls, llm_failures, exited>>
  /\ UNCHANGED <<mainFrame, parseVars, subVars>>

\* The exit choice of either menu: return None.
ExitMenu ==
  /\ pc = "menu"
  /\ exited' = TRUE
  /\ pc' = AfterSession(None, args.commit)
  /\ UNCHANGED <<history, assistant_msg, current_options, has_interactive_result,
                 latest_interactive_result, selected_message, last_prompt, llm_calls,
                 llm_failures>>
  /\ UNCHANGED <<mainFrame, parseVars, subVars>>

\* The numbers the user may type at a list of n options: the first, the last,
\* and one past the last.
SelectInputs(n) == {1, n, n + 1}

\* Menu choice 1 without an interactive result: the only option, or the option
\* whose number the user types; a number out of range changes nothing.
DirectSelect(k) ==
  /\ pc = "menu"
  /\ ~has_interactive_result
  /\ IF Len(current_options) = 1
     THEN /\ k = 1
          /\ selected_message' = current_options[1]
          /\ pc' = AfterSession(selected_message', args.commit)
     ELSE IF k \in 1..Len(current_options)
          THEN /\ selected_message' = current_options[k]
               /\ pc' = AfterSession(selected_message', args.commit)
          ELSE UNCHANGED <<selected_message, pc>>
  /\ UNCHANGED <<history, assistant_msg, current_options, has_interactive_result,
                 latest_interactive_result, last_prompt, llm_calls, llm_failures,
                 exited>>
  /\ UNCHANGED <<mainFrame, parseVars, subVars>>

\* ["完成", "done", "accept", "使用", "使用这个"]
DoneWords == {<<"WanCheng">>, <<"done">>, <<"accept">>, <<"ShiYong">>, <<"ShiYongZheGe">>}

\* ["退出", "exit", "cancel", "quit", "q"]
ExitWords == {<<"TuiChu">>, <<"exit">>, <<"cancel">>, <<"quit">>, <<"q">>}

\* A value that counts as true in a condition: neither None nor "".
Truthy(x) == x # None /\ x # <<>>

\* The option numbers an instruction of the form "merge/combine option i and
\* option j" names, among n options.
MergeIndices(user_input, n) ==
  IF user_input # <<>> /\ user_input[1] \in {"merge", "combine"}
  THEN {k \in 1..n :
          \E i \in 1..(Len(user_input) - 2) :
            /\ user_input[i] = "option"
            /\ user_input[i + 1] = " "
            /\ user_input[i + 2] = DigitTok(k)}
  ELSE {}

\* PromptFor with a prompt of its own for a merge instruction, built from the
\* options the instruction names.
PromptFor_Merge(user_input, messages, opts, lng) ==
  IF Cardinality(MergeIndices(user_input, Len(opts))) >= 2
  THEN <<"Merge these messages:", "\n">>
         \o Join([i \in 1..Len(opts) |->
                    IF i \in MergeIndices(user_input, Len(opts)) THEN opts[i] ELSE <<>>],
                 <<"\n">>)
  ELSE build_conversation_prompt(messages, lng)

\* The prompt of a free-text instruction: always the conversation prompt.
PromptFor(user_input, messages, opts, lng) == build_conversation_prompt(messages, lng)

\* What the user may type as an instruction.
UserInputs ==
  { <<"DONE">>,
    <<"exit", " ">>,
    <<"combine", " ", "option", " ", "1", " ", "and", " ", "option", " ", "3">> }

\* What the runner may answer in the session.
SessionOutputs ==
  { <<>>,
    <<"a", "\n">>,
    <<"<fence>", "md", "\n", "c", "\n", "<fence>">> }

SessionOutcomes ==
  {[kind |-> "ok", stdout |-> t] : t \in SessionOutputs}
    \cup {[kind |-> k, stdout |-> <<>>] : k \in Failures}

\* Menu choice 2: one instruction in natural language, from input() to the end
\* of the loop body, in a session whose history grows to limit messages.
Instruct(limit, raw_input, outcome) ==
  /\ pc = "menu"
  /\ Len(history) < limit
  /\ LET user_input == Strip(raw_input)
         said == Append(history, [role |-> "user", content |-> user_input])
     IN IF LowerText(user_input) \in DoneWords
        THEN /\ outcome.kind = "CalledProcessError"
             /\ history' = said
             /\ IF Truthy(latest_interactive_result)
                THEN /\ selected_message' = latest_interactive_result
                     /\ pc' = AfterSession(selected_message', args.commit)
                ELSE UNCHANGED <<selected_message, pc>>
             /\ UNCHANGED <<has_interactive_result, latest_interactive_result,
                            last_prompt, llm_calls, llm_failures, exited>>
        ELSE IF LowerText(user_input) \in ExitWords
        THEN /\ outcome.kind = "CalledProcessError"
             /\ history' = said
             /\ exited' = TRUE
             /\ pc' = AfterSession(None, args.commit)
             /\ UNCHANGED <<selected_message, has_interactive_result,
                            latest_interactive_result, last_prompt, llm_calls,
                            llm_failures>>
        ELSE /\ last_prompt' =
                  [kind |-> "session",
                   instruction |-> user_input,
                   turns |-> Len(said),
                   text |-> PromptFor(user_input, said, current_options, language)]
             /\ llm_calls' = llm_calls + 1
             /\ IF outcome.kind = "ok"
                THEN LET response == IF outcome.stdout # <<>> THEN Strip(outcome.stdout)
                                     ELSE <<>>
                         extracted == extract_commit_message(response)
                         commit_message == IF Truthy(extracted) THEN extracted
                                           ELSE response
                     IN /\ Len(history) + 2 <= limit
                        /\ history' = Append(said, [role |-> "assistant",
                                                    content |-> commit_message])
                        /\ latest_interactive_result' = commit_message
                        /\ has_interactive_result' = TRUE
                        /\ UNCHANGED llm_failures
                ELSE /\ history' = said
                     /\ llm_failures' = llm_failures + 1
                     /\ UNCHANGED <<latest_interactive_result, has_interactive_result>>
             /\ UNCHANGED <<selected_message, pc, exited>>
  /\ UNCHANGED <<assistant_msg, current_options>>
  /\ UNCHANGED <<mainFrame, parseVars, subVars>>

FreeText(raw_input, outcome) == Instruct(MaxTurns, raw_input, outcome)

Next ==
  \/ \E a \in ArgSets, n \in RawCounts, raw \in RawLanguages : ParseArgs(a, n, raw)
  \/ \E ollama_installed \in BOOLEAN, is_repo \in BOOLEAN : CheckEnv(ollama_installed, is_repo)
  \/ \E status \in StatusCases, after \in BOOLEAN :
       CheckChanges(status[1], status[2], status[3], after)
  \/ \E confirm \in {"y", "YES", "n"}, after \in BOOLEAN : AnswerStage(confirm, after)
  \/ \E info \in SubmoduleInfos : Collect(info)
  \/ \E outcome \in GenOutcomes(language, args.num_options) : Generate(outcome)
  \/ SelectFirst
  \/ StartSession
  \/ UseCurrent
  \/ ReturnToOriginal
  \/ ExitMenu
  \/ \E k \in SelectInputs(Len(current_options)) : DirectSelect(k)
  \/ \E raw_input \in UserInputs, outcome \in SessionOutcomes : FreeText(raw_input, outcome)
  \/ \E confirm \in {"YES", "n"} : DoCommit(confirm)

Spec == Init /\ [][Next]_vars

\* ------------------------------------------------------- a long session

\* The command lines of the long session: -g -c, with one option or two.
LongArgs ==
  {[generate |-> TRUE, commit |-> TRUE, all |-> FALSE, no_interactive |-> FALSE,
    view |-> FALSE, clear_log |-> FALSE, num_options |-> n] : n \in {1, 2}}

\* The program before the generation, with staged changes and no submodule.
LongInit ==
  /\ ParseIdle
  /\ SubIdle
  /\ pc = "generate"
  /\ args \in LongArgs
  /\ language = "english"
  /\ staged_changes = TRUE
  /\ unstaged_changes = FALSE
  /\ submodule_changes = FALSE
  /\ submodule_info = <<>>
  /\ generated = NoGeneration
  /\ commit_options = [is_list |-> FALSE, items |-> <<>>]
  /\ history = <<>>
  /\ assistant_msg = <<>>
  /\ current_options = <<>>
  /\ has_interactive_result = FALSE
  /\ latest_interactive_result = None
  /\ selected_message = None
  /\ last_prompt = NoPrompt
  /\ llm_calls = 0
  /\ llm_failures = 0
  /\ parser_calls = 0
  /\ stage_prompts = 0
  /\ reported = "nothing"
  /\ exited = FALSE
  /\ answer = ""
  /\ commit_calls = <<>>

\* What the user types in the long session: an instruction, or an exit word.
LongInputs ==
  { <<"combine", " ", "option", " ", "1", " ", "and", " ", "option", " ", "3">>,
    <<"exit", " ">> }

\* What the runner does in the long session: it answers, or it fails.
LongOutcomes ==
  { [kind |-> "ok", stdout |-> <<"a", "\n">>],
    [kind |-> "CalledProcessError", stdout |-> <<>>] }

LongFreeText(raw_input, outcome) == Instruct(MaxLongTurns, raw_input, outcome)

LongNext ==
  \/ Generate([kind |-> "ok", stdout |-> Formatted(language, args.num_options)])
  \/ StartSession
  \/ UseCurrent
  \/ ReturnToOriginal
  \/ ExitMenu
  \/ \E k \in SelectInputs(Len(current_options)) : DirectSelect(k)
  \/ \E raw_input \in LongInputs, outcome \in LongOutcomes : LongFreeText(raw_input, outcome)
  \/ \E confirm \in {"YES", "n"} : DoCommit(confirm)

SpecLong == LongInit /\ [][LongNext]_vars

\* ------------------------------------------------------------ claims

AllTokens ==
  {"Option", "OPTION", "Alternative", "XuanXiang", "FangAn", ":", "FullColon",
   " ", "\n", "a", "b", "(ShengChengShiBai)"} \cup Digits

\* A string, as opposed to None.
IsText(x) == x \in Seq(AllTokens)

\* C1: whatever the response, the parser returns exactly num_options strings,
\* none of them null, for every num_options in 1..5 and either language.
C1_ExactCount ==
  ppc = "parsed" =>
    /\ DOMAIN options = 1..want
    /\ \A i \in 1..want : IsText(options[i])

\* C1's case: five options were asked for, the response held one, and the last
\* four are placeholders.
C1_Witness ==
  /\ ppc = "parsed"
  /\ want = MaxOptions
  /\ out = <<"Option", "a">>
  /\ options[1] = <<"a">>
  /\ options[MaxOptions] = Placeholder(MaxOptions)

\* The response is an optional introduction and then the markers 1..want of one
\* marker family, once each and in ascending order, each followed by a body
\* that holds no marker.
WellFormed ==
  shape # NoShape /\ want >= 2 /\ Len(chain) = want /\ nums = [i \in 1..want |-> i]

\* C3: of a well-formed response the parser returns exactly the bodies,
\* stripped, in order; the introduction is dropped.
C3_MarkerSplit ==
  (ppc = "parsed" /\ WellFormed) => options = [i \in 1..want |-> Strip(chain[i])]

\* C3's case: "a\nOption 1: ...  Option 5: ..." with five bodies, the first of
\* them " a\n\n".
C3_Witness ==
  /\ ppc = "parsed"
  /\ WellFormed
  /\ want = MaxOptions
  /\ shape = [kw |-> "Option", form |-> "plain"]
  /\ prefix = <<"a", "\n">>
  /\ chain[1] = <<" ", "a", "\n", "\n">>
  /\ options[1] = <<"a">>

\* Some marker pattern of the language matches somewhere in the text.
HasMarker(text, lng) ==
  \E k \in 1..3, i \in 1..Len(text) : MatchEnd(option_patterns(lng)[k], text, i) > 0

\* The text holds three consecutive newlines.
HasTripleNewline(text) == \E i \in 1..Len(text) : OccursAt(text, <<"\n", "\n", "\n">>, i)

\* The text holds the bare keyword the loose split cuts at.
HasKeyword(text, lng) ==
  \E i \in 1..Len(text) : text[i] = (IF IsChinese(lng) THEN "XuanXiang" ELSE "Option")

\* The response and then the placeholders numbered 2..n.
Degenerate(response, n) == [i \in 1..n |-> IF i = 1 THEN response ELSE Placeholder(i)]

\* C4 as stated: without a marker and without a triple newline, three options
\* are the whole response and two placeholders.
C4_Original ==
  (ppc = "parsed" /\ want = 3 /\ ~HasMarker(out, lang) /\ ~HasTripleNewline(out))
    => options = Degenerate(out, 3)

\* C4, amended: the response must not hold the bare keyword either; then, for
\* every num_options >= 2, the options are the unmodified response and the
\* placeholders numbered 2..num_options.
C4_DegenerateFallback ==
  (/\ ppc = "parsed"
   /\ want >= 2
   /\ ~HasMarker(out, lang)
   /\ ~HasKeyword(out, lang)
   /\ ~HasTripleNewline(out))
    => options = Degenerate(out, want)

\* C4's case: "a\n\n" with three options asked for comes back unstripped,
\* followed by the placeholders 2 and 3.
C4_Witness ==
  /\ ppc = "parsed"
  /\ want = 3
  /\ out = <<"a", "\n", "\n">>
  /\ options = <<out, Placeholder(2), Placeholder(3)>>

\* C10: when process_submodules has returned the working directory is the one
\* at its entry, and so it is at the head of every submodule's inspection.
C10_DirectoryRestored ==
  spc \in {"inspect", "returned"} => cwd = cwd0

\* C10's case: two submodules were inspected, the first one's log query raised
\* inside the submodule directory, the second was not a repository, and the
\* function has returned.
C10_Witness ==
  /\ spc = "returned"
  /\ cwd0 = <<"repo", "src">>
  /\ seen = <<"error", "notrepo">>
  /\ cwd = cwd0

\* C2 as stated: when the candidates are first shown, to the session or to the
\* non-interactive selection, there are exactly num_options of them, whatever
\* the outcome of the model call.
C2_RequestedCount ==
  pc = "present" => Len(commit_options.items) = args.num_options

\* C5 as stated: with one option the parser is not called and the candidate
\* is never the empty string; when the stripped output is not empty, the
\* candidate is that stripped output.
C5_SingleOption ==
  (pc = "present" /\ args.num_options = 1 /\ generated.kind = "ok")
    => /\ parser_calls = 0
       /\ commit_options.items[1] # <<>>
       /\ Strip(generated.stdout) # <<>>
            => commit_options.items = <<Strip(generated.stdout)>>

\* C6: git commit is called only under -c, after an affirmative answer to the
\* confirmation, and, with the session enabled, after a session that returned
\* a message; after an exit from the session or another answer there is no
\* commit in the run.
C6_CommitGuarded ==
  /\ commit_calls # <<>>
       => /\ args.commit
          /\ answer \in {"y", "yes"}
          /\ ~args.no_interactive => (~exited /\ selected_message # None)
          /\ commit_calls = <<selected_message>>
  /\ exited => commit_calls = <<>>
  /\ (pc = "done" /\ answer \notin {"y", "yes"}) => commit_calls = <<>>

\* C6's case: a message refined in the session was committed after "yes".
C6_Witness ==
  /\ commit_calls # <<>>
  /\ ~args.no_interactive
  /\ has_interactive_result
  /\ commit_calls[1] = latest_interactive_result
  /\ answer = "yes"

\* Some occurrence of part in text.
Contains(text, part) == \E i \in 1..Len(text) : OccursAt(text, part, i)

\* The last prompt of the session was sent for an instruction that names the
\* options 1 and 3 of three distinct options.
MergeOfOneAndThree ==
  /\ last_prompt.kind = "session"
  /\ Len(current_options) = 3
  /\ MergeIndices(last_prompt.instruction, 3) = {1, 3}
  /\ \A i, j \in 1..3 : i # j => ~Contains(current_options[i], current_options[j])

C8_NoChanges ==
  [][/\ pc # "done"
     /\ (pc = "check" /\ ~staged_changes' /\ ~unstaged_changes' /\ ~submodule_changes')
          => /\ pc' = "done"
             /\ reported' = "no changes detected"
             /\ llm_calls' = 0
             /\ stage_prompts' = 0
             /\ commit_calls' = <<>>]_vars

\* C8's case: the program has returned at the change check under -a -c with
\* nothing to stage.
C8_Witness ==
  /\ pc = "done"
  /\ reported = "no changes detected"
  /\ args.all
  /\ args.commit
  /\ ~staged_changes /\ ~unstaged_changes /\ ~submodule_changes

\* C9 as stated: a model call that raises in the session leaves the working
\* candidate, the has-result flag, the candidate set and the history as they
\* were before the instruction, and stays in the loop.
C9_FailureLeavesState ==
  [][llm_failures' # llm_failures
       => /\ pc' = "menu"
          /\ latest_interactive_result' = latest_interactive_result
          /\ has_interactive_result' = has_interactive_result
          /\ current_options' = current_options
          /\ history' = history]_vars

\* The summary process_submodules builds from the outcomes log[i..]: one entry
\* for each submodule whose log query returned commits.
RECURSIVE SummaryOf(_, _)
SummaryOf(log, i) ==
  IF i > Len(log) THEN <<>>
  ELSE (IF log[i] = "commits" THEN SummaryEntry(submodule_path(i), LogText(i)) ELSE <<>>)
         \o SummaryOf(log, i + 1)

\* The summary holds an entry for the i-th path.
HasEntry(summary, i) == Contains(summary, <<"Submodule", " ", submodule_path(i)>>)

\* C11 as stated: when the scan has returned every line was processed, each
\* submodule that is there and is a repository has an entry with its path,
\* old hash and new hash, and each other one has none.
C11_Original ==
  spc = "returned"
    => /\ Len(seen) = matches
       /\ \A i \in 1..matches :
            IF seen[i] \in {"missing", "notrepo"}
            THEN ~HasEntry(submodule_summary, i)
            ELSE seen[i] \in {"commits", "empty", "error"}
                   => /\ HasEntry(submodule_summary, i)
                      /\ Contains(submodule_summary, <<old_hash(i)>>)
                      /\ Contains(submodule_summary, <<new_hash(i)>>)

\* C11, amended: when the scan has returned every line was processed, and the
\* summary is, in the order of the lines, one entry of path and log text for
\* each submodule that is there, is a repository and whose log query returned
\* commits; a submodule that is missing, is no repository, has an empty log or
\* raised has no entry, and no entry holds an old hash.
C11_ScanSummary ==
  spc = "returned"
    => /\ Len(seen) = matches
       /\ submodule_summary = SummaryOf(seen, 1)
       /\ \A i \in 1..matches :
            /\ HasEntry(submodule_summary, i) <=> seen[i] = "commits"
            /\ ~Contains(submodule_summary, <<old_hash(i)>>)

\* C11's case: of two lines the first submodule is missing and the second one
\* has commits; the scan went on and the summary is the second one's entry.
C11_Witness ==
  /\ spc = "returned"
  /\ seen = <<"missing", "commits">>
  /\ submodule_summary = SummaryEntry("libs/bar", <<"def567", " ", "subject">>)

\* The in-range markers the parser finds in the response, in position order.
Positions == SortByStart(option_positions(out, want, option_patterns(lang), 1))

\* The pieces of the response between runs of three newlines.
TripleParts == TripleNewlineParts(out)

\* The first num_options of those pieces, stripped.
TripleResult == [i \in 1..want |-> Strip(TripleParts[i])]

\* The result of the loose keyword split or the whole response, padded and cut.
LooseResult == Truncate(Pad(LooseSplit(out, want, lang), want), want)

\* C12 as stated: whenever the marker split does not give num_options pieces
\* and the response has num_options pieces between triple newlines, the
\* result is the first num_options of them, stripped.
C12_Original ==
  (/\ ppc = "parsed"
   /\ ~(Positions # <<>> /\ Len(Positions) = want)
   /\ Len(TripleParts) >= want)
    => options = TripleResult

\* C12, amended: the triple-newline split is tried only when no in-range
\* marker was found, and then accepted with num_options pieces or more and
\* followed by the loose split otherwise; when markers were found but not
\* num_options of them, the loose split comes at once.
C12_TripleNewline ==
  ppc = "parsed"
    => /\ (Positions = <<>> /\ Len(TripleParts) >= want) => options = TripleResult
       /\ (Positions = <<>> /\ Len(TripleParts) < want) => options = LooseResult
       /\ (Positions # <<>> /\ Len(Positions) # want) => options = LooseResult

\* C12's case: "Option 1:\n\n\na" with two options asked for has one marker
\* and two pieces between triple newlines, and goes through the loose split.
C12_Witness ==
  /\ ppc = "parsed"
  /\ want = 2
  /\ out = <<"Option", " ", "1", ":", "\n", "\n", "\n", "a">>
  /\ Len(TripleParts) = 2
  /\ options = LooseResult
  /\ options # TripleResult

\* The response is num_options markers of one family, each with a number in
\* range and followed by a body that holds no marker.
AllMarked ==
  shape # NoShape /\ Len(chain) = want /\ \A k \in 1..Len(nums) : nums[k] \in 1..want

\* C13 as stated: of an accepted marker split, option i is the stripped text
\* behind the marker numbered i.
C13_Original ==
  (ppc = "parsed" /\ AllMarked)
    => \A i \in 1..want : \E k \in 1..want : nums[k] = i /\ options[i] = Strip(chain[k])

\* C13, amended: of an accepted marker split, option i is the stripped text
\* behind the i-th marker in position order, up to the next marker, whatever
\* numbers the markers bear.
C13_PositionOrder ==
  (ppc = "parsed" /\ AllMarked)
    => /\ Len(Positions) = want
       /\ options = [i \in 1..want |-> Strip(chain[i])]

\* C13's case: "Option 2: b" and then "Option 1:\n\n\na" give b and a.
C13_Witness ==
  /\ ppc = "parsed"
  /\ want = 2
  /\ shape.kw = "Option"
  /\ nums = <<2, 1>>
  /\ chain = <<<<" ", "b">>, <<"\n", "\n", "\n", "a">>>>
  /\ options = <<<<"b">>, <<"a">>>>

\* C14 as stated: a session entered with one candidate returns with that
\* candidate selected, with no menu in between.
C14_Original ==
  [][(pc = "present" /\ ~args.no_interactive /\ Len(commit_options.items) = 1)
       => /\ pc' \in {"confirm", "done"}
          /\ selected_message' = commit_options.items[1]]_vars

\* C14, amended: a session entered with one candidate stops at the menu with
\* nothing selected; from that menu the session returns either with the
\* candidate, on menu choice 1 and without a question for a number, or with
\* None on an exit.
C14_SingleCandidateMenu ==
  [][/\ (pc = "present" /\ ~args.no_interactive /\ Len(commit_options.items) = 1)
          => (pc' = "menu" /\ selected_message' = None)
     /\ (/\ pc = "menu"
         /\ Len(current_options) = 1
         /\ ~has_interactive_result
         /\ pc' # "menu")
          => \/ selected_message' = current_options[1] /\ ~exited'
             \/ selected_message' = None /\ exited']_vars

\* C14's case: the one candidate was shown in the menu and the user left the
\* session with the exit choice, before any instruction.
C14_Witness ==
  /\ pc = "done"
  /\ ~args.no_interactive
  /\ args.num_options = 1
  /\ Len(current_options) = 1
  /\ Len(history) = 3
  /\ exited
  /\ selected_message = None

\* The turns a prompt embeds of the first n turns of the history: the last
\* ConversationTurns of them, or all n when there are fewer.
Embedded(n) ==
  LET m == IF n < ConversationTurns THEN n ELSE ConversationTurns
  IN [k \in 1..m |-> history'[n - m + k]]

\* The text of those turns: each behind its role, with a blank line between.
EmbeddedText(n) ==
  Join([k \in 1..Len(Embedded(n)) |->
          RolePrefix(Embedded(n)[k].role) \o Embedded(n)[k].content],
       <<"\n", "\n">>)

\* C15: every prompt of the session is the heading, the last min(10, n) turns
\* of the n-turn history in their order, the last of them the instruction just
\* typed, and the closing request; and a step of the session leaves the
\* history as it was or appends to it.
C15_LastTenTurns ==
  [][/\ last_prompt' # last_prompt
          => LET n == last_prompt'.turns
             IN /\ n \in 1..Len(history')
                /\ history'[n] = [role |-> "user", content |-> last_prompt'.instruction]
                /\ Embedded(n)[Len(Embedded(n))] = history'[n]
                /\ Len(Embedded(n)) = (IF n < 10 THEN n ELSE 10)
                /\ last_prompt'.text =
                     <<"Conversation history:", "\n">> \o EmbeddedText(n)
                       \o <<"\n", "\n", "Please respond">>
     /\ pc = "menu"
          => /\ Len(history') >= Len(history)
             /\ SubSeq(history', 1, Len(history)) = history]_vars

\* C15's case: the prompt for the eleventh turn was sent, without the first
\* turn of the history, the system prompt.
C15_Witness ==
  /\ last_prompt.kind = "session"
  /\ last_prompt.turns = 11
  /\ Len(history) >= 11
  /\ history[1].content = system_prompt(language)
  /\ ~Contains(last_prompt.text, system_prompt(language))
  /\ Contains(last_prompt.text, RolePrefix("system") \o history[2].content)

\* C16 as stated: every message passed to git commit is a non-empty string.
C16_NonEmptyMessage ==
  \A i \in 1..Len(commit_calls) : commit_calls[i] # None /\ commit_calls[i] # <<>>

\* C17 as stated: no message passed to git commit is one of the texts that
\* generate_commit_message returns when the model call failed.
C17_NoSentinelCommitted ==
  \A i \in 1..Len(commit_calls) :
    commit_calls[i] \notin {FailureSentinel(kind) : kind \in Failures}

\* C18 as stated: when the model has been called for the generation, the staged
\* diff read last was not empty.
C18_StagedAtGeneration ==
  generated # NoGeneration => staged_changes

====
